---- MODULE Spec2Model ----
(***************************************************************************)
(* A model of app.py, the photo triage server: scan_folder groups the      *)
(* media of a folder by capture time, take_action disposes of one group    *)
(* (trash_all, keep_all, save_gif, batch_organize), and                    *)
(* get_safe_filename_date names the files moved into _KEPT.                *)
(*                                                                         *)
(* Time is counted in half seconds.  A file name is the sequence of the    *)
(* string pieces it is concatenated from, so that two names are equal      *)
(* exactly when the concatenations are.                                    *)
(***************************************************************************)
EXTENDS Integers, Sequences, FiniteSets, TLC

\* ------------------------------------------------------------------ bounds
MaxClock == 2       \* int(time.time()) returns a value of 1..MaxClock
MaxGifs == 1        \* save_gif is offered while _KEPT holds fewer exports
MaxIdxLen == 2      \* longest trashIndices list of a request
MaxInclLen == 1     \* longest includedIndices list of a request
MaxProbeDir == 3    \* numbered siblings a directory of the namer runs may hold
MaxFrames == 4      \* most frames an animation is assembled from
MaxLeftover == 1    \* a move is refused to keep_all while _KEPT holds fewer leftovers of failed requests

\* ------------------------------------------------------ program constants
TRASH_DIR_NAME == "_TRASH"
KEEP_DIR_NAME == "_KEPT"
\* time_threshold=2.0 seconds, in half seconds
DefaultThreshold == 4
\* one calendar day, scaled down to a few thresholds
DayLen == 2 * DefaultThreshold

NoExif == -1
FileIds == {1, 2, 3}

VARIABLES
    files,           \* id -> [stem, ext, mtime, exif]: the media the folder was given
    folder,          \* ids of the files now in the scanned folder (not in a subdirectory)
    trash,           \* _TRASH: name -> content
    kept,            \* _KEPT:  name -> content
    trashExists,     \* whether the directory _TRASH exists
    keptExists,      \* whether the directory _KEPT exists
    current_folder,  \* manager.current_folder
    groups,          \* manager.groups: a sequence of sequences of <<file, date>>
    last,            \* the last request served: what it asked and what it was answered
    ncalls,          \* get_safe_filename_date called on its own: its last two calls
    gcalls,          \* the GIF assembly called on its own: its last call
    issued           \* the groups of the session that the last scan replaced, where that is recorded

vars == <<files, folder, trash, kept, trashExists, keptExists, current_folder,
          groups, last, ncalls, gcalls, issued>>

fsVars == <<folder, trash, kept, trashExists, keptExists>>
sessionVars == <<current_folder, groups>>

\* ------------------------------------------------------------------- names
DigitTok == <<"0", "1", "2", "3", "4", "5", "6", "7", "8", "9">>

\* str(n) of a natural number, one piece per decimal digit
RECURSIVE Digits(_)
Digits(n) ==
    IF n < 10 THEN <<DigitTok[n + 1]>>
    ELSE Digits(n \div 10) \o <<DigitTok[(n % 10) + 1]>>

\* date_obj.strftime("%Y%m%d"): the calendar day, the time of day dropped
strftime(date_obj) ==
    IF date_obj \div DayLen = 0 THEN "20240101"
    ELSE IF date_obj \div DayLen = 1 THEN "20240102"
    ELSE "20240103"

\* os.path.basename(src) of a file of the folder
basename(f) == <<files[f].stem, files[f].ext>>

\* s.lower() of an extension
lower(ext) ==
    CASE ext = ".JPG" -> ".jpg"
      [] ext = ".MP4" -> ".mp4"
      [] ext = ".MOV" -> ".mov"
      [] ext = ".PNG" -> ".png"
      [] ext = ".HEIC" -> ".heic"
      [] OTHER -> ext

\* the order in which the glob patterns of scan_folder are tried
extensions ==
    <<".jpg", ".jpeg", ".png", ".heic", ".HEIC", ".JPG", ".PNG",
      ".mov", ".MOV", ".mp4", ".MP4", ".gif">>

IsGif(f) == lower(files[f].ext) = ".gif"
\* the videos save_gif and generate_preview_gif skip
IsMovie(f) == lower(files[f].ext) \in {".mov", ".mp4"}
\* the videos get_photo_datetime and keep_all never decode
IsVideo(f) == lower(files[f].ext) \in {".mov", ".mp4", ".avi", ".mkv"}

\* ---------------------------------------------------------------- scanning
\* get_photo_datetime: the EXIF capture time of a photo that has one, else mtime
get_photo_datetime(f) ==
    IF IsVideo(f) THEN files[f].mtime
    ELSE IF files[f].exif # NoExif THEN files[f].exif
    ELSE files[f].mtime

\* the ids of s in increasing order (the order the directory lists them in)
RECURSIVE SetToSeq(_)
SetToSeq(s) ==
    IF s = {} THEN <<>>
    ELSE LET m == CHOOSE x \in s : \A y \in s : x <= y
         IN <<m>> \o SetToSeq(s \ {m})

\* glob.glob(os.path.join(folder_path, ext)) for the pattern *ext; posix fnmatch
\* compares the case as it is, so a file matches one pattern at most
Glob(present, ext) == SetToSeq({f \in present : files[f].ext = ext})

\* lines 63-65: files.extend(glob(...)) for each pattern in turn
RECURSIVE Enumerate(_, _)
Enumerate(present, i) ==
    IF i > Len(extensions) THEN <<>>
    ELSE Glob(present, extensions[i]) \o Enumerate(present, i + 1)

\* line 68: a path that contains _TRASH or _KEPT is dropped
Special(f) == files[f].stem \in {TRASH_DIR_NAME, KEEP_DIR_NAME}

FilterSpecial(fs) == SelectSeq(fs, LAMBDA f : ~Special(f))

\* lines 72-74
WithDates(fs) == [i \in 1..Len(fs) |-> <<fs[i], get_photo_datetime(fs[i])>>]

\* not the code: x is put before the elements of its own key
RECURSIVE InsertSorted_unstable(_, _)
InsertSorted_unstable(s, x) ==
    IF s = <<>> THEN <<x>>
    ELSE IF x[2] <= s[1][2] THEN <<x>> \o s
    ELSE <<s[1]>> \o InsertSorted_unstable(Tail(s), x)

\* inserting x after every element whose key is not larger: a stable sort step
RECURSIVE InsertSorted(_, _)
InsertSorted(s, x) ==
    IF s = <<>> THEN <<x>>
    ELSE IF x[2] < s[1][2] THEN <<x>> \o s
    ELSE <<s[1]>> \o InsertSorted(Tail(s), x)

\* line 76: files_with_dates.sort(key=lambda x: x[1]), a stable sort
RECURSIVE SortByDate(_)
SortByDate(s) ==
    IF s = <<>> THEN <<>>
    ELSE InsertSorted(SortByDate(SubSeq(s, 1, Len(s) - 1)), s[Len(s)])

\* not the code: a later file exactly time_threshold after the earlier is split off
Joins_strict(fwd, i, time_threshold) ==
    LET delta == fwd[i][2] - fwd[i - 1][2]
    IN delta < time_threshold /\ ~IsGif(fwd[i][1]) /\ ~IsGif(fwd[i - 1][1])

\* not the code: the file before is not asked whether it is a GIF
Joins_noPrevGif(fwd, i, time_threshold) ==
    LET delta == fwd[i][2] - fwd[i - 1][2]
    IN delta <= time_threshold /\ ~IsGif(fwd[i][1])

\* line 94: whether the file at i joins the group of the file before it
Joins(fwd, i, time_threshold) ==
    LET delta == fwd[i][2] - fwd[i - 1][2]
        is_gif == IsGif(fwd[i][1])
        prev_is_gif == IsGif(fwd[i - 1][1])
    IN delta <= time_threshold /\ ~is_gif /\ ~prev_is_gif

\* lines 84-98: the loop over i, with self.groups and current_group
RECURSIVE GroupLoop(_, _, _, _, _)
GroupLoop(fwd, i, time_threshold, gs, current_group) ==
    IF i > Len(fwd) THEN Append(gs, current_group)
    ELSE IF Joins(fwd, i, time_threshold)
         THEN GroupLoop(fwd, i + 1, time_threshold, gs, Append(current_group, fwd[i]))
         ELSE GroupLoop(fwd, i + 1, time_threshold, Append(gs, current_group), <<fwd[i]>>)

\* lines 62-76: the files of the folder with their dates, sorted
SortedFiles(present) == SortByDate(WithDates(FilterSpecial(Enumerate(present, 1))))

\* scan_folder: the groups it leaves in self.groups
scan_folder(present, time_threshold) ==
    LET files_with_dates == SortedFiles(present)
    IN IF files_with_dates = <<>> THEN <<>>
       ELSE GroupLoop(files_with_dates, 2, time_threshold, <<>>, <<files_with_dates[1]>>)

\* ------------------------------------------------------------ file system
\* what a file holds: the bytes of the media file id as scanned ("file"), a
\* re-encoding of it ("edited"), a write of it that broke off ("partial"), an
\* exported animation of frames ("gif"), or something older than the run ("old")
Content(kind, id, frames) == [kind |-> kind, id |-> id, frames |-> frames]

Orig(f) == Content("file", f, <<>>)
Old == Content("old", 0, <<>>)
EmptyDir == [n \in {} |-> Old]

\* a directory with name holding c, whatever it held under that name before
Put(dir, name, c) ==
    [n \in DOMAIN dir \cup {name} |-> IF n = name THEN c ELSE dir[n]]

\* the state a handler's loop works on; ok turns FALSE when an exception leaves
\* it; denied are the files the operating system refuses to move for the time
\* of the request
FsState(fo, tr, ke) == [folder |-> fo, trash |-> tr, kept |-> ke, ok |-> TRUE, denied |-> {}]

Raise(st) == [st EXCEPT !.ok = FALSE]

Deny(st, denied) == [st EXCEPT !.denied = denied]

\* not the code: a copy, the source stays where it is
Move_copy(st, src, where, dst) ==
    IF src \notin st.folder \/ src \in st.denied THEN Raise(st)
    ELSE IF where = "trash"
         THEN [st EXCEPT !.trash = Put(@, dst, Orig(src))]
         ELSE [st EXCEPT !.kept = Put(@, dst, Orig(src))]

\* shutil.move(src, dst) into _TRASH or _KEPT: the source is gone from the folder
\* and dst holds its bytes, in place of what dst held (os.rename); a source that
\* is gone, or that may not be moved, raises and nothing is changed
Move(st, src, where, dst) ==
    IF src \notin st.folder \/ src \in st.denied THEN Raise(st)
    ELSE IF where = "trash"
         THEN [st EXCEPT !.folder = @ \ {src}, !.trash = Put(@, dst, Orig(src))]
         ELSE [st EXCEPT !.folder = @ \ {src}, !.kept = Put(@, dst, Orig(src))]

\* ------------------------------------------------- get_safe_filename_date
\* not the code: the first numbered name is returned whether or not it is free
ProbeLoop_unchecked(dir, date_str, original_ext, counter) ==
    <<date_str, "_">> \o Digits(counter) \o <<original_ext>>

\* not the code: the counter goes up by two
RECURSIVE ProbeLoop_byTwo(_, _, _, _)
ProbeLoop_byTwo(dir, date_str, original_ext, counter) ==
    LET new_name == <<date_str, "_">> \o Digits(counter) \o <<original_ext>>
    IN IF new_name \notin DOMAIN dir THEN new_name
       ELSE ProbeLoop_byTwo(dir, date_str, original_ext, counter + 2)

\* lines 115-120: the probe loop
RECURSIVE ProbeLoop(_, _, _, _)
ProbeLoop(dir, date_str, original_ext, counter) ==
    LET new_name == <<date_str, "_">> \o Digits(counter) \o <<original_ext>>
    IN IF new_name \notin DOMAIN dir THEN new_name
       ELSE ProbeLoop(dir, date_str, original_ext, counter + 1)

\* not the code: the date and the extension, whatever the directory holds
get_safe_filename_date_plain(dir, date_obj, original_ext) ==
    <<strftime(date_obj), original_ext>>

\* not the code: _1 is returned without a look at the directory
get_safe_filename_date_noProbe(dir, date_obj, original_ext) ==
    LET date_str == strftime(date_obj)
        base_name == <<date_str, original_ext>>
    IN IF base_name \notin DOMAIN dir THEN base_name
       ELSE <<date_str, "_">> \o Digits(1) \o <<original_ext>>

\* lines 115-120: how often the probe loop calls os.path.exists
RECURSIVE ProbeCount(_, _, _, _)
ProbeCount(dir, date_str, original_ext, counter) ==
    LET new_name == <<date_str, "_">> \o Digits(counter) \o <<original_ext>>
    IN IF new_name \notin DOMAIN dir THEN 1
       ELSE 1 + ProbeCount(dir, date_str, original_ext, counter + 1)

\* lines 112-120: how often get_safe_filename_date calls os.path.exists
NamerProbes(dir, date_obj, original_ext) ==
    LET date_str == strftime(date_obj)
        base_name == <<date_str, original_ext>>
    IN IF base_name \notin DOMAIN dir THEN 1
       ELSE 1 + ProbeCount(dir, date_str, original_ext, 1)

\* lines 108-120
get_safe_filename_date(dir, date_obj, original_ext) ==
    LET date_str == strftime(date_obj)
        base_name == <<date_str, original_ext>>
    IN IF base_name \notin DOMAIN dir THEN base_name
       ELSE ProbeLoop(dir, date_str, original_ext, 1)

\* ------------------------------------------------------- Python sequences
\* whether seq[idx] exists for a list of n items; idx < 0 counts from the end
PyIndexOk(n, idx) == -n <= idx /\ idx < n

\* seq[idx]
PyIndex(seq, idx) == IF idx >= 0 THEN seq[idx + 1] ELSE seq[Len(seq) + idx + 1]

RECURSIVE InsertInt(_, _)
InsertInt(s, x) ==
    IF s = <<>> THEN <<x>>
    ELSE IF x < s[1] THEN <<x>> \o s
    ELSE <<s[1]>> \o InsertInt(Tail(s), x)

\* sorted(s) of a list of integers
RECURSIVE sorted(_)
sorted(s) == IF s = <<>> THEN <<>> ELSE InsertInt(sorted(Tail(s)), s[1])

\* s[::-1]
RECURSIVE Reverse(_)
Reverse(s) == IF s = <<>> THEN <<>> ELSE Append(Reverse(Tail(s)), s[1])

\* where a slice with step -1 starts or stops in a list of n items: an index
\* below 0 counts from the end, and what lies outside is clamped to -1 or n - 1
SliceBound(n, x) ==
    IF x < 0 THEN (IF x + n < 0 THEN -1 ELSE x + n)
    ELSE (IF x >= n THEN n - 1 ELSE x)

\* seq[start:stop:-1]: the items from start down to the one after stop
PySliceDown(seq, start, stop) ==
    LET from == SliceBound(Len(seq), start)
        to == SliceBound(Len(seq), stop)
    IN [k \in 1..(IF from > to THEN from - to ELSE 0) |-> seq[from - k + 2]]

\* frames[-2:0:-1]
BounceTail(frames) == PySliceDown(frames, -2, 0)

\* --------------------------------------------------------------- trash_all
\* lines 313-314: f"{base}_{int(time.time())}{ext}"
EpochName(src, now) == <<files[src].stem, "_">> \o Digits(now) \o <<files[src].ext>>

\* not the code: the basename, whether or not _TRASH has a file of that name
TrashName_plain(st, src, now) == basename(src)

\* lines 311-314 and 413-416: the name src is moved to in _TRASH
TrashName(st, src, now) ==
    LET dst == basename(src)
    IN IF dst \in DOMAIN st.trash THEN EpochName(src, now) ELSE dst

\* not the code: an item whose move raises is passed over and the loop goes on
RECURSIVE TrashLoop_skips(_, _, _, _)
TrashLoop_skips(st, group, i, tm) ==
    IF i > Len(group) THEN st
    ELSE LET src == group[i][1]
             next == Move(st, src, "trash", TrashName(st, src, tm[i]))
         IN TrashLoop_skips(IF next.ok THEN next ELSE st, group, i + 1, tm)

\* lines 309-315; tm[i] is what time.time() returns in the i-th round
RECURSIVE TrashLoop(_, _, _, _)
TrashLoop(st, group, i, tm) ==
    IF i > Len(group) \/ ~st.ok THEN st
    ELSE LET src == group[i][1]
         IN TrashLoop(Move(st, src, "trash", TrashName(st, src, tm[i])), group, i + 1, tm)

\* ---------------------------------------------------------------- keep_all
\* line 331: whether the item is decoded and re-encoded
Edits(src, rotation, crop) == ~IsVideo(src) /\ (rotation # 0 \/ crop # "None")

\* not the code: a failed edit is left to the handler's except clause
EditItem_noFallback(st, src, dst, rotation, crop, outcome) ==
    IF src \notin st.folder THEN Raise(st)
    ELSE IF outcome = "ok"
         THEN [st EXCEPT !.kept = Put(@, dst, Content("edited", src, <<>>)),
                         !.folder = @ \ {src}]
         ELSE Raise(st)

\* lines 332-358: the edit of one item; outcome is how far it gets
EditItem(st, src, dst, rotation, crop, outcome) ==
    IF src \notin st.folder
    THEN \* Image.open raises, and so does the move of the except clause
         Raise(st)
    ELSE IF outcome = "ok"
         THEN \* img.save(dst), os.remove(src); where the source may not be removed
              \* os.remove raises, and so does the move of the except clause
              IF src \in st.denied
              THEN Raise([st EXCEPT !.kept = Put(@, dst, Content("edited", src, <<>>))])
              ELSE [st EXCEPT !.kept = Put(@, dst, Content("edited", src, <<>>)),
                              !.folder = @ \ {src}]
    ELSE IF outcome = "decode"
         THEN \* Image.open, rotate or crop raises: shutil.move(src, dst)
              Move(st, src, "kept", dst)
    ELSE \* img.save raises with dst begun: shutil.move(src, dst) replaces it
         Move([st EXCEPT !.kept = Put(@, dst, Content("partial", src, <<>>))],
              src, "kept", dst)

\* lines 321-360; oc[i] is the outcome of the edit of the i-th item
RECURSIVE KeepLoop(_, _, _, _, _, _)
KeepLoop(st, group, i, rotation, crop, oc) ==
    IF i > Len(group) \/ ~st.ok THEN st
    ELSE LET src == group[i][1]
             date_obj == group[i][2]
             ext == files[src].ext
             new_filename == get_safe_filename_date(st.kept, date_obj, ext)
             next == IF Edits(src, rotation, crop)
                     THEN EditItem(st, src, new_filename, rotation, crop, oc[i])
                     ELSE Move(st, src, "kept", new_filename)
         IN KeepLoop(next, group, i + 1, rotation, crop, oc)

\* ---------------------------------------------------------- batch_organize
\* line 411: the indices the trash loop acts on
InRange(group, idx) == idx < Len(group)

\* lines 410-417
RECURSIVE BatchTrashLoop(_, _, _, _, _)
BatchTrashLoop(st, group, trash_indices, k, tm) ==
    IF k > Len(trash_indices) \/ ~st.ok THEN st
    ELSE LET idx == trash_indices[k]
         IN IF ~InRange(group, idx)
            THEN BatchTrashLoop(st, group, trash_indices, k + 1, tm)
            ELSE IF ~PyIndexOk(Len(group), idx)
            THEN Raise(st)     \* group[idx]: IndexError
            ELSE LET src == PyIndex(group, idx)[1]
                     dst == TrashName(st, src, tm[k])
                     next == IF src \in st.folder THEN Move(st, src, "trash", dst) ELSE st
                 IN BatchTrashLoop(next, group, trash_indices, k + 1, tm)

\* lines 419-426
RECURSIVE BatchKeepLoop(_, _, _)
BatchKeepLoop(st, group, i) ==
    IF i > Len(group) \/ ~st.ok THEN st
    ELSE LET src == group[i][1]
             date_obj == group[i][2]
             next == IF src \in st.folder
                     THEN Move(st, src, "kept",
                               get_safe_filename_date(st.kept, date_obj, files[src].ext))
                     ELSE st
         IN BatchKeepLoop(next, group, i + 1)

\* lines 408-426
batch_organize(st, group, trash_indices, tm) ==
    BatchKeepLoop(BatchTrashLoop(st, group, trash_indices, 1, tm), group, 1)

\* ---------------------------------------------------------------- save_gif
\* place.strip(): the blanks at both ends dropped
RECURSIVE lstrip(_)
lstrip(p) == IF p # <<>> /\ p[1] = " " THEN lstrip(Tail(p)) ELSE p

strip(p) == Reverse(lstrip(Reverse(lstrip(p))))

\* line 368: place.replace(" ", "_") if place else "Unknown"
PlaceSafe(place) ==
    IF place = <<>> THEN <<"Unknown">>
    ELSE [i \in 1..Len(place) |-> IF place[i] = " " THEN "_" ELSE place[i]]

\* lines 371-374: the 0-based positions of the group the export draws on;
\* included_indices is [none |-> TRUE] when the request gives no list
TargetIndices(group, included_indices) ==
    IF included_indices.none THEN [i \in 1..Len(group) |-> i - 1]
    ELSE sorted(SelectSeq(included_indices.list, LAMBDA i : 0 <= i /\ i < Len(group)))

\* what FrameLoop gives when Image.open raises
Raised == <<0>>

\* lines 376-386: the frames, or Raised; opens tells whether Image.open decodes
\* the files it is given that exist
RECURSIVE FrameLoop(_, _, _, _, _)
FrameLoop(present, group, target, k, opens) ==
    IF k > Len(target) THEN <<>>
    ELSE LET f == group[target[k] + 1][1]
             rest == FrameLoop(present, group, target, k + 1, opens)
         IN IF IsMovie(f) THEN rest
            ELSE IF f \notin present \/ ~opens \/ rest = Raised
            THEN Raised
            ELSE <<f>> \o rest

\* not the code: the whole sequence played backwards after itself
OutputFrames_dupEnds(frames, mode) ==
    IF mode = "bounce" THEN frames \o Reverse(frames) ELSE frames

\* lines 390-392: output_frames of save_gif
OutputFrames(frames, mode) ==
    IF mode = "bounce" THEN frames \o BounceTail(frames) ELSE frames

\* lines 273-275: output_frames of generate_preview_gif
PreviewFrames(frames, mode) ==
    IF mode = "bounce" THEN frames \o BounceTail(frames) ELSE frames

\* not the code: the first name is taken whether or not it is free
GifProbe_unchecked(dir, base_filename, gif_filename, counter) == gif_filename

\* lines 397-401: the probe loop of the export's name
RECURSIVE GifProbe(_, _, _, _)
GifProbe(dir, base_filename, gif_filename, counter) ==
    IF gif_filename \notin DOMAIN dir THEN gif_filename
    ELSE GifProbe(dir, base_filename,
                  base_filename \o <<"_">> \o Digits(counter) \o <<".gif">>, counter + 1)

\* lines 397-401: how often the loop of the export's name calls os.path.exists
RECURSIVE GifProbeCount(_, _, _, _)
GifProbeCount(dir, base_filename, gif_filename, counter) ==
    IF gif_filename \notin DOMAIN dir THEN 1
    ELSE 1 + GifProbeCount(dir, base_filename,
                           base_filename \o <<"_">> \o Digits(counter) \o <<".gif">>, counter + 1)

\* lines 394-401
GifNameProbes(dir, group, place) ==
    LET date_str == strftime(group[1][2])
        base_filename == <<date_str, "_">> \o PlaceSafe(strip(place))
    IN GifProbeCount(dir, base_filename, base_filename \o <<".gif">>, 1)

\* lines 394-403
GifName(dir, group, place) ==
    LET date_str == strftime(group[1][2])
        base_filename == <<date_str, "_">> \o PlaceSafe(strip(place))
    IN GifProbe(dir, base_filename, base_filename \o <<".gif">>, 1)

\* lines 362-406: [status, kept]
save_gif(st, group, mode, place, included_indices, opens) ==
    LET frames == FrameLoop(st.folder, group, TargetIndices(group, included_indices), 1, opens)
    IN IF frames = Raised THEN [status |-> "error", kept |-> st.kept]
       ELSE IF frames = <<>> THEN [status |-> "bad_request", kept |-> st.kept]
       ELSE [status |-> "ok",
             kept |-> Put(st.kept, GifName(st.kept, group, place),
                          Content("gif", 0, OutputFrames(frames, mode)))]

\* ------------------------------------------------------------------ inputs
Rotations == {0, 90}
Crops == {"None", "box"}
Modes == {"normal", "bounce"}
Places == {<<>>, <<" ", "1">>}
Stages == {"ok", "decode", "encode"}
Thresholds == {0, DefaultThreshold - 1, DefaultThreshold}

\* the integers a client sends to index a list of n items: every valid position,
\* -1, and one past either end
Ints(n) == {-(n + 1), -1} \cup (0..n)

\* lists of at most maxLen integers of Ints(n)
IdxLists(n, maxLen) == UNION {[1..k -> Ints(n)] : k \in 0..maxLen}

\* what a request may give as includedIndices for a group of n items
Included(n) ==
    {[none |-> TRUE, list |-> <<>>]}
        \cup {[none |-> FALSE, list |-> l] : l \in IdxLists(n, MaxInclLen)}

\* how a save_gif request is made and met: mode, place, and whether Image.open
\* decodes the files it is given (when it does not, mode and place play no part)
GifArgs ==
    {<<mode, place, TRUE>> : mode \in Modes, place \in Places} \cup {<<"normal", <<>>, FALSE>>}

GroupIds == Ints(Len(groups))
ValidIds == {gid \in GroupIds : PyIndexOk(Len(groups), gid)}

\* the exports _KEPT holds
NumGifs(dir) == Cardinality({n \in DOMAIN dir : dir[n].kind = "gif"})

\* the 1-based positions of the group whose file keep_all decodes: a photo that is
\* still in the folder, with an edit asked for
Tried(group, rotation, crop) ==
    {i \in 1..Len(group) : group[i][1] \in folder /\ Edits(group[i][1], rotation, crop)}

\* what the codec answers for the items of a group: "ok" where nothing is decoded
Outcomes(group, rotation, crop) ==
    {oc \in [1..Len(group) -> Stages] :
        \A i \in 1..Len(group) : i \notin Tried(group, rotation, crop) => oc[i] = "ok"}

\* what time.time() answers in the rounds of a loop over srcs: 1 in a round that
\* does not read it or moves nothing
Clocks(srcs) ==
    {tm \in [1..Len(srcs) -> 1..MaxClock] :
        \A i \in 1..Len(srcs) :
            (srcs[i] \notin folder \/ basename(srcs[i]) \notin DOMAIN trash) => tm[i] = 1}

\* the files a list of indices names in a group, 0 where group[idx] does not exist
Named(group, l) ==
    [k \in 1..Len(l) |-> IF PyIndexOk(Len(group), l[k]) THEN PyIndex(group, l[k])[1] ELSE 0]

Items(group) == [i \in 1..Len(group) |-> group[i][1]]

\* --------------------------------------------------- what a response records
Response(action, gid, status, arg) ==
    [action |-> action, gid |-> gid, status |-> status, arg |-> arg]

\* the 0-based positions of a group of n items that a list of indices names as such
Listed(l, n) == {l[k] : k \in 1..Len(l)} \cap (0..(n - 1))

\* how many of the items a save_gif request selects are not videos
Stills(group, inc) ==
    Len(SelectSeq(TargetIndices(group, inc), LAMBDA i : ~IsMovie(group[i + 1][1])))

\* the 1-based positions whose edit did not run to its end
Failed(oc) == {i \in 1..Len(oc) : oc[i] # "ok"}

\* ----------------------------------------------------------------- actions
\* POST /api/scan, lines 168-192
ScanStep(time_threshold) ==
    /\ current_folder' = "folder"
    /\ groups' = scan_folder(folder, time_threshold)
    /\ last' = Response("scan", 0, "ok", time_threshold)
    /\ UNCHANGED <<files, fsVars, ncalls, gcalls, issued>>

\* the route calls scan_folder(folder) with the default threshold
Scan == ScanStep(DefaultThreshold)

\* line 298: manager.groups[group_id] raises IndexError before anything is done
\* (whatever the action asked for)
BadGroup ==
    \E gid \in GroupIds \ ValidIds :
        /\ last' = Response("action", gid, "crash", 0)
        /\ UNCHANGED <<files, fsVars, sessionVars, ncalls, gcalls, issued>>

\* lines 301-305 done and the loop of the action run from st: what the handler leaves
Finish(st, action, gid, arg) ==
    /\ folder' = st.folder
    /\ trash' = st.trash
    /\ kept' = st.kept
    /\ trashExists' = TRUE
    /\ keptExists' = TRUE
    /\ last' = Response(action, gid, IF st.ok THEN "ok" ELSE "error", arg)
    /\ UNCHANGED <<files, sessionVars, ncalls, gcalls, issued>>

Now == FsState(folder, trash, kept)

\* every item of the group is still in the folder
Whole(group) == \A i \in 1..Len(group) : group[i][1] \in folder

\* trash_all while the files of denied may not be moved
TrashAllWith(denied) ==
    \E gid \in ValidIds :
        LET group == PyIndex(groups, gid)
        IN \E tm \in Clocks(Items(group)) :
            Finish(TrashLoop(Deny(Now, denied), group, 1, tm), "trash_all", gid,
                   [denied |-> denied])

TrashAll == TrashAllWith({})

\* keep_all while the files of denied may not be moved
KeepAllWith(denied) ==
    \E gid \in ValidIds, rotation \in Rotations, crop \in Crops :
        LET group == PyIndex(groups, gid)
        IN \E oc \in Outcomes(group, rotation, crop) :
            Finish(KeepLoop(Deny(Now, denied), group, 1, rotation, crop, oc), "keep_all", gid,
                   [tried |-> Tried(group, rotation, crop), failed |-> Failed(oc),
                    denied |-> denied])

KeepAll == KeepAllWith({})

BatchOrganize ==
    \E gid \in ValidIds :
        LET group == PyIndex(groups, gid)
        IN \E l \in IdxLists(Len(group), MaxIdxLen) :
            \E tm \in Clocks(Named(group, l)) :
                Finish(batch_organize(Now, group, l, tm), "batch_organize", gid,
                       IF Whole(group) THEN Listed(l, Len(group)) ELSE {})

SaveGif ==
    /\ NumGifs(kept) < MaxGifs
    /\ \E gid \in ValidIds, a \in GifArgs :
        LET group == PyIndex(groups, gid)
        IN \E inc \in Included(Len(group)) :
            LET r == save_gif(Now, group, a[1], a[2], inc, a[3])
            IN /\ kept' = r.kept
               /\ last' = Response("save_gif", gid, r.status, Stills(group, inc))
    /\ trashExists' = TRUE
    /\ keptExists' = TRUE
    /\ UNCHANGED <<files, folder, trash, sessionVars, ncalls, gcalls, issued>>

\* ------------------------------------------------------------------- start
File(stem, ext, mtime, exif) == [stem |-> stem, ext |-> ext, mtime |-> mtime, exif |-> exif]

\* a.jpg carries its capture time, b.jpg and c.mp4 are dated by their mtime; the
\* video is taken right after the photos (one group of three) or the next day
Folder(mc) ==
    <<File("a", ".jpg", 2 * DayLen, 0), File("b", ".jpg", DefaultThreshold - 1, NoExif),
      File("c", ".mp4", mc, 0)>>

NoCalls == <<>>

InitSession ==
    /\ current_folder = ""
    /\ groups = <<>>
    /\ last = Response("none", 0, "ok", 0)
    /\ ncalls = NoCalls
    /\ gcalls = NoCalls
    /\ issued = <<>>

\* a folder never triaged before, or one with earlier work in _TRASH and _KEPT
Init ==
    /\ folder = FileIds
    /\ \/ /\ files = Folder(DefaultThreshold)
          /\ trash = EmptyDir
          /\ kept = EmptyDir
       \/ /\ files = Folder(DayLen + 1)
          /\ trash = Put(Put(EmptyDir, <<"a", ".jpg">>, Old), <<"a", "_", "2", ".jpg">>, Old)
          /\ kept = Put(Put(EmptyDir, <<"20240101", ".jpg">>, Old),
                        <<"20240101", "_", "Unknown", ".gif">>, Old)
    /\ trashExists = (trash # EmptyDir)
    /\ keptExists = (kept # EmptyDir)
    /\ InitSession

Next ==
    \/ Scan
    \/ BadGroup
    \/ TrashAll
    \/ KeepAll
    \/ SaveGif
    \/ BatchOrganize

Spec == Init /\ [][Next]_vars

\* --------------------------------------------- scan_folder on every folder
Times == {0, DefaultThreshold, DayLen + 1}
Exts == {".jpg", ".gif", ".mp4"}

\* three files of any kind and time; the first may carry a capture time, the
\* third may be named after a special directory
ScanFolders ==
    {<<File("a", e1, m1, x1), File("b", e2, m2, NoExif), File(s3, e3, m3, NoExif)>> :
        e1 \in Exts, e2 \in Exts, e3 \in Exts, m1 \in Times, m2 \in Times, m3 \in Times,
        x1 \in {NoExif, DefaultThreshold}, s3 \in {"c", KEEP_DIR_NAME}}

InitScan ==
    /\ files \in ScanFolders
    /\ folder \in {1..k : k \in 0..Cardinality(FileIds)}
    /\ trash = EmptyDir
    /\ kept = EmptyDir
    /\ trashExists = FALSE
    /\ keptExists = FALSE
    /\ InitSession

\* scan_folder(folder_path, time_threshold) with any threshold
ScanAny == \E t \in Thresholds : ScanStep(t)

NextScan == ScanAny

SpecScan == InitScan /\ [][NextScan]_vars

\* ------------------------------------- get_safe_filename_date on its own
NamerDates == {0, DayLen}
NamerExts == {".jpg", ".gif"}

\* the names get_safe_filename_date tries for the first day and .jpg, up to _MaxProbeDir
Siblings ==
    {<<strftime(0), ".jpg">>}
        \cup {<<strftime(0), "_">> \o Digits(k) \o <<".jpg">> : k \in 1..MaxProbeDir}

Dir(names) == [n \in names |-> Old]

InitNamer ==
    /\ files = Folder(DefaultThreshold)
    /\ folder = FileIds
    /\ trash = EmptyDir
    /\ kept \in {Dir(names) : names \in SUBSET Siblings}
    /\ trashExists = FALSE
    /\ keptExists = TRUE
    /\ InitSession

\* a call of get_safe_filename_date(kept_path, date_obj, ext), remembered with the
\* names _KEPT held when it was made
Call(date_obj, ext) ==
    [date_obj |-> date_obj, ext |-> ext, dir |-> DOMAIN kept,
     out |-> get_safe_filename_date(kept, date_obj, ext)]

NamerCall ==
    \E date_obj \in NamerDates, ext \in NamerExts :
        /\ ncalls' = IF ncalls = NoCalls THEN <<Call(date_obj, ext)>>
                      ELSE <<ncalls[Len(ncalls)], Call(date_obj, ext)>>
        /\ UNCHANGED <<files, fsVars, sessionVars, last, gcalls, issued>>

\* lines 327-360: the caller puts a file under the name the last call returned
NamerCreate ==
    /\ ncalls # NoCalls
    /\ Cardinality(DOMAIN kept) <= MaxProbeDir + 1
    /\ kept' = Put(kept, ncalls[Len(ncalls)].out, Old)
    /\ UNCHANGED <<files, folder, trash, trashExists, keptExists, sessionVars, last, ncalls, gcalls, issued>>

NextNamer ==
    \/ NamerCall
    \/ NamerCreate

SpecNamer == InitNamer /\ [][NextNamer]_vars

\* ------------------------------------------------ the two probe loops
\* the names save_gif tries for the first day and no place, up to _MaxProbeDir
GifSiblings ==
    {<<strftime(0), "_", "Unknown", ".gif">>}
        \cup {<<strftime(0), "_", "Unknown", "_">> \o Digits(k) \o <<".gif">> : k \in 1..MaxProbeDir}

InitProbe ==
    /\ files = Folder(DefaultThreshold)
    /\ folder = FileIds
    /\ trash = EmptyDir
    /\ kept \in {Dir(names) : names \in SUBSET (Siblings \cup GifSiblings)}
    /\ trashExists = FALSE
    /\ keptExists = TRUE
    /\ InitSession

\* what a probe loop was given and gave: the name without number and extension,
\* the extension, the names of the directory, the name returned, and the number of
\* calls of os.path.exists
Probed(stem, ext, out, probes) ==
    [stem |-> stem, ext |-> ext, dir |-> DOMAIN kept, out |-> out, probes |-> probes]

\* get_safe_filename_date(kept_path, date_obj, ext)
NamerProbe ==
    \E date_obj \in NamerDates, ext \in NamerExts :
        /\ gcalls' = <<Probed(<<strftime(date_obj)>>, ext,
                              get_safe_filename_date(kept, date_obj, ext),
                              NamerProbes(kept, date_obj, ext))>>
        /\ UNCHANGED <<files, fsVars, sessionVars, last, ncalls, issued>>

\* lines 394-401 of save_gif for a group whose first item has the date date_obj
GifNameProbe ==
    \E date_obj \in NamerDates, place \in Places :
        LET group == <<<<1, date_obj>>>>
        IN /\ gcalls' = <<Probed(<<strftime(date_obj), "_">> \o PlaceSafe(strip(place)), ".gif",
                                 GifName(kept, group, place),
                                 GifNameProbes(kept, group, place))>>
           /\ UNCHANGED <<files, fsVars, sessionVars, last, ncalls, issued>>

NextProbe ==
    \/ NamerProbe
    \/ GifNameProbe

SpecProbe == InitProbe /\ [][NextProbe]_vars

\* -------------------------------------------- moves the system refuses
\* no file, or one file, that may not be moved while a request is served
Denials == {{}} \cup {{f} : f \in FileIds}

TrashAllDenied == \E denied \in Denials : TrashAllWith(denied)

\* the files a request wrote into a directory before it failed on their source
NumLeftover(dir) ==
    Cardinality({n \in DOMAIN dir : dir[n].kind \in {"partial", "edited"} /\ dir[n].id \in folder})

KeepAllDenied ==
    \E denied \in Denials :
        /\ denied # {} => NumLeftover(kept) < MaxLeftover
        /\ KeepAllWith(denied)

NextFail ==
    \/ Scan
    \/ TrashAllDenied
    \/ KeepAllDenied

SpecFail == Init /\ [][NextFail]_vars

\* ------------------------------------------------ one scan after another
\* POST /api/scan, with the groups it replaces remembered: their indices are the
\* ids a client was given before
Rescan ==
    /\ current_folder' = "folder"
    /\ groups' = scan_folder(folder, DefaultThreshold)
    /\ issued' = groups
    /\ last' = Response("scan", 0, "ok", DefaultThreshold)
    /\ UNCHANGED <<files, fsVars, ncalls, gcalls>>

NextStale ==
    \/ Rescan
    \/ TrashAll
    \/ KeepAll
    \/ BatchOrganize

SpecStale == Init /\ [][NextStale]_vars

\* ---------------------------------------------- the GIF assembly on its own
\* the frames the loops of save_gif and generate_preview_gif may have collected
\* when the test for "no frames" is passed: the images of files, in any number
\* from 1 to MaxFrames (a list of indices may name a file twice)
FrameSeqs == UNION {[1..n -> FileIds] : n \in 1..MaxFrames}

\* "bounce", "normal" and a mode the page does not offer
BounceModes == Modes \cup {"reverse"}

InitBounce ==
    /\ files = Folder(DefaultThreshold)
    /\ folder = FileIds
    /\ trash = EmptyDir
    /\ kept = EmptyDir
    /\ trashExists = FALSE
    /\ keptExists = FALSE
    /\ InitSession

Assembled(route, frames, mode, out) ==
    [route |-> route, frames |-> frames, mode |-> mode, out |-> out]

\* lines 388-392 with frames collected
SaveGifFrames ==
    \E frames \in FrameSeqs, mode \in BounceModes :
        /\ gcalls' = <<Assembled("save_gif", frames, mode, OutputFrames(frames, mode))>>
        /\ UNCHANGED <<files, fsVars, sessionVars, last, ncalls, issued>>

\* lines 271-275 with frames collected
PreviewGifFrames ==
    \E frames \in FrameSeqs, mode \in BounceModes :
        /\ gcalls' = <<Assembled("generate_preview_gif", frames, mode,
                                 PreviewFrames(frames, mode))>>
        /\ UNCHANGED <<files, fsVars, sessionVars, last, ncalls, issued>>

NextBounce ==
    \/ SaveGifFrames
    \/ PreviewGifFrames

SpecBounce == InitBounce /\ [][NextBounce]_vars

\* ------------------------------------------------------ reading the state
\* the group (its 1-based place in manager.groups) of each file the session lists
GroupsOf(f) == {g \in 1..Len(groups) : \E j \in 1..Len(groups[g]) : groups[g][j][1] = f}

SameGroup(f1, f2) == GroupsOf(f1) \cap GroupsOf(f2) # {}

DigitVal(d) == CHOOSE v \in 0..9 : DigitTok[v + 1] = d

\* int(s) of the decimal digits s
RECURSIVE ParseInt(_)
ParseInt(s) ==
    IF s = <<>> THEN 0 ELSE 10 * ParseInt(SubSeq(s, 1, Len(s) - 1)) + DigitVal(s[Len(s)])

\* the numeric suffix of a name YYYYMMDD_k<ext>, 0 for YYYYMMDD<ext>
Suffix(name) == IF Len(name) = 2 THEN 0 ELSE ParseInt(SubSeq(name, 3, Len(name) - 1))

Scanned == last.action = "scan"

\* the group the request just answered named
Asked == PyIndex(groups, last'.gid)

\* the names of a directory that the step just taken did not find there
NewNames(before, after) == DOMAIN after \ DOMAIN before

\* every file a directory held is still there, with what it held
Preserved(before, after) == \A n \in DOMAIN before : n \in DOMAIN after /\ after[n] = before[n]

\* files of the folder that a directory holds as they were
HeldIn(dir) == {f \in FileIds : \E n \in DOMAIN dir : dir[n] = Orig(f)}

\* a name YYYYMMDD<ext> or YYYYMMDD_k<ext>, k >= 1, for the date and kind of file f
DatedName(n, f) ==
    /\ n[1] = strftime(get_photo_datetime(f))
    /\ n[Len(n)] = files[f].ext
    /\ Len(n) = 2 \/ (Len(n) > 3 /\ n[2] = "_" /\ Suffix(n) >= 1)

\* ------------------------------------------------------------------ claims

\* C1: a keep_all or batch_organize request leaves every file that _KEPT held
\* in place and unchanged, and the items it takes out of the folder and does not
\* trash are each under a name of their own that _KEPT did not have, dated
\* YYYYMMDD or YYYYMMDD_k; it adds no other name.
C1_KeepNeverOverwrites ==
    [][last'.action \in {"keep_all", "batch_organize"} =>
        LET gone == (folder \ folder') \ HeldIn(trash')
            new == NewNames(kept, kept')
        IN /\ Preserved(kept, kept')
           /\ \A f \in gone : \E n \in new : kept'[n].id = f /\ DatedName(n, f)
           /\ \A n \in new : kept'[n].id \in gone
           /\ Cardinality(new) = Cardinality(gone)]_vars

\* both photos of one day kept next to an older file of that day: _KEPT holds
\* the older file and the two as _1 and _2
C1_Witness ==
    /\ last.action = "keep_all"
    /\ last.status = "ok"
    /\ {<<"20240101", "_", "1", ".jpg">>, <<"20240101", "_", "2", ".jpg">>} \subseteq DOMAIN kept
    /\ kept[<<"20240101", ".jpg">>] = Old
    /\ kept[<<"20240101", "_", "1", ".jpg">>].id = 1
    /\ kept[<<"20240101", "_", "2", ".jpg">>].id = 2

\* C2: a trash_all or batch_organize request leaves every file that _TRASH held
\* in place and unchanged, whatever _TRASH held and whatever the clock reads.
C2_TrashNeverOverwrites ==
    [][last'.action \in {"trash_all", "batch_organize"} => Preserved(trash, trash')]_vars

\* C3: after a scan with threshold t, two files adjacent in the sorted order, neither
\* a GIF, are in the same group exactly when the later one's time exceeds the
\* earlier one's by at most t (a difference of exactly t keeps them together).
C3_AdjacentWithinThreshold ==
    Scanned =>
        LET fwd == SortedFiles(folder)
        IN \A i \in 2..Len(fwd) :
            (~IsGif(fwd[i][1]) /\ ~IsGif(fwd[i - 1][1])) =>
                (SameGroup(fwd[i - 1][1], fwd[i][1]) <=> fwd[i][2] - fwd[i - 1][2] <= last.arg)

\* a scan that kept a pair exactly t > 0 apart together and split a pair further apart
C3_Witness ==
    /\ Scanned
    /\ last.arg > 0
    /\ LET fwd == SortedFiles(folder)
       IN /\ Len(fwd) = 3
          /\ \A i \in 1..3 : ~IsGif(fwd[i][1])
          /\ fwd[2][2] - fwd[1][2] = last.arg
          /\ SameGroup(fwd[1][1], fwd[2][1])
          /\ fwd[3][2] - fwd[2][2] > last.arg
          /\ ~SameGroup(fwd[2][1], fwd[3][1])

\* C4: after any scan no group holds a GIF together with a file that is not a GIF.
C4_NoMixedGifGroup ==
    \A g \in 1..Len(groups) :
        ~(\E j, k \in 1..Len(groups[g]) : IsGif(groups[g][j][1]) /\ ~IsGif(groups[g][k][1]))

\* a scan that sorted a GIF between two other files, of the time of the one before
\* it and within the threshold of the one after it, and left it in a group of its own
C4_Witness ==
    /\ Scanned
    /\ Len(groups) = 3
    /\ LET fwd == SortedFiles(folder)
       IN /\ Len(fwd) = 3
          /\ fwd[1][2] = fwd[2][2]
          /\ fwd[3][2] - fwd[2][2] <= last.arg
          /\ ~IsGif(fwd[1][1]) /\ IsGif(fwd[2][1]) /\ ~IsGif(fwd[3][1])

\* C5: the name get_safe_filename_date returns is not the name of a file the
\* directory holds when it returns.
C5_NameIsFree == \A i \in 1..Len(ncalls) : ncalls[i].out \notin ncalls[i].dir

\* a call that found the plain name and _1 taken and returned _2
C5_Witness ==
    /\ ncalls # NoCalls
    /\ LET c == ncalls[Len(ncalls)]
       IN /\ <<strftime(c.date_obj), c.ext>> \in c.dir
          /\ <<strftime(c.date_obj), "_", "1", c.ext>> \in c.dir
          /\ c.out = <<strftime(c.date_obj), "_", "2", c.ext>>

\* two calls in a row for the same date and extension
Repeated ==
    /\ Len(ncalls) = 2
    /\ ncalls[1].date_obj = ncalls[2].date_obj
    /\ ncalls[1].ext = ncalls[2].ext

\* C6 as stated: two calls in a row for the same date and extension with no file
\* created in between return numbered names, the second with the larger number.
C6_AsStated ==
    (Repeated /\ ncalls[1].dir = ncalls[2].dir) =>
        Suffix(ncalls[2].out) > Suffix(ncalls[1].out)

\* C6 amended: with no file created in between the second call returns the name
\* the first returned; with the file of the first name created in between, the
\* second returns a larger number (the plain name counting as 0).
C6_IncreasingOnceCreated ==
    Repeated =>
        /\ ncalls[1].dir = ncalls[2].dir => ncalls[2].out = ncalls[1].out
        /\ ncalls[1].out \in ncalls[2].dir => Suffix(ncalls[2].out) > Suffix(ncalls[1].out)

\* _1 returned and created, and then _2 returned
C6_Witness ==
    /\ Repeated
    /\ ncalls[1].out \in ncalls[2].dir
    /\ Suffix(ncalls[1].out) = 1
    /\ Suffix(ncalls[2].out) = 2

\* C7: after a successful batch_organize on a group whose items were all in the
\* folder, an item is in _TRASH exactly when its 0-based position is one of
\* trashIndices, every other item is in _KEPT, and none is left in the folder.
C7_BatchSplitsByPosition ==
    [][(last'.action = "batch_organize" /\ last'.status = "ok" /\ Whole(Asked)) =>
        \A i \in 1..Len(Asked) :
            LET f == Asked[i][1]
            IN /\ f \in HeldIn(trash') <=> (i - 1) \in last'.arg
               /\ (i - 1) \notin last'.arg => f \in HeldIn(kept')
               /\ f \notin folder']_vars

\* C8: a batch_organize request that follows a successful batch_organize request
\* on the same group id succeeds and leaves the folder, _TRASH and _KEPT as they
\* were, whatever its trashIndices.
C8_BatchTwice ==
    [][(/\ last.action = "batch_organize"
        /\ last.status = "ok"
        /\ last'.action = "batch_organize"
        /\ last'.gid = last.gid) =>
            (last'.status = "ok" /\ <<folder, trash, kept>>' = <<folder, trash, kept>>)]_vars

\* the items all edited without a failure
AllOk(group) == [i \in 1..Len(group) |-> "ok"]

\* C9: a keep_all request with an edit, on a group whose items are all in the
\* folder, where the decoding or the re-encoding of some item fails, succeeds: a
\* failing item is out of the folder and in _KEPT as it was, and the folder and
\* every other file of _KEPT are what the request leaves when nothing fails.
C9_EditFailureFallsBack ==
    [][(last'.action = "keep_all" /\ last'.arg.failed # {} /\ Whole(Asked)) =>
        /\ last'.status = "ok"
        /\ \A i \in last'.arg.failed :
              /\ Asked[i][1] \notin folder'
              /\ \E n \in NewNames(kept, kept') : kept'[n] = Orig(Asked[i][1])
        /\ \A rotation \in Rotations, crop \in Crops :
              Tried(Asked, rotation, crop) = last'.arg.tried =>
                LET ref == KeepLoop(Now, Asked, 1, rotation, crop, AllOk(Asked))
                IN /\ folder' = ref.folder
                   /\ trash' = ref.trash
                   /\ DOMAIN kept' = DOMAIN ref.kept
                   /\ \A n \in DOMAIN kept' :
                         \/ kept'[n] = ref.kept[n]
                         \/ \E i \in last'.arg.failed :
                               /\ kept'[n] = Orig(Asked[i][1])
                               /\ ref.kept[n] = Content("edited", Asked[i][1], <<>>)]_vars

\* keep_all with an edit of two photos, the first not decoded or not written: it
\* is in _KEPT as it was, the second re-encoded
C9_Witness ==
    /\ last.action = "keep_all"
    /\ last.status = "ok"
    /\ last.arg.tried = {1, 2}
    /\ last.arg.failed = {1}
    /\ \E n, m \in DOMAIN kept :
          /\ kept[n] = Orig(1)
          /\ kept[m] = Content("edited", 2, <<>>)
    /\ folder \cap {1, 2} = {}

\* C10: a save_gif request whose selection holds no item that is not a video is
\* answered with the no-frames failure and leaves the file system, the presence
\* of _TRASH and _KEPT included, as it was.
C10_NoFramesNoWrite ==
    [][(last'.action = "save_gif" /\ last'.arg = 0) =>
        (last'.status = "bad_request" /\ fsVars' = fsVars)]_vars

\* a name YYYYMMDD_<place>.gif or YYYYMMDD_<place>_k.gif, k >= 1, for the date of the
\* first item of the group and a place a request may give
GifNamed(n, group) ==
    \E place \in Places :
        LET base == <<strftime(group[1][2]), "_">> \o PlaceSafe(strip(place))
        IN \/ n = base \o <<".gif">>
           \/ /\ Len(n) > Len(base) + 2
              /\ SubSeq(n, 1, Len(base) + 1) = base \o <<"_">>
              /\ n[Len(n)] = ".gif"
              /\ ParseInt(SubSeq(n, Len(base) + 2, Len(n) - 1)) >= 1

\* C11: a save_gif request that succeeds leaves the folder and _TRASH as they were
\* and every file of _KEPT in place and unchanged, and adds one file to _KEPT,
\* named YYYYMMDD_<place>.gif or YYYYMMDD_<place>_k.gif.
C11_SaveGifAdditive ==
    [][(last'.action = "save_gif" /\ last'.status = "ok") =>
        /\ folder' = folder
        /\ trash' = trash
        /\ Preserved(kept, kept')
        /\ Cardinality(NewNames(kept, kept')) = 1
        /\ \A n \in NewNames(kept, kept') :
              kept'[n].kind = "gif" /\ GifNamed(n, Asked)]_vars

\* an export saved next to an older export of the same day and place: the older
\* one is as it was, the new one is numbered _1, the photos are still in the folder
C11_Witness ==
    /\ last.action = "save_gif"
    /\ last.status = "ok"
    /\ <<"20240101", "_", "Unknown", ".gif">> \in DOMAIN kept
    /\ kept[<<"20240101", "_", "Unknown", ".gif">>] = Old
    /\ <<"20240101", "_", "Unknown", "_", "1", ".gif">> \in DOMAIN kept
    /\ kept[<<"20240101", "_", "Unknown", "_", "1", ".gif">>].kind = "gif"
    /\ {1, 2} \subseteq folder

Disposals == {"trash_all", "keep_all", "batch_organize"}

\* no item of the group is in the scanned folder any more
Disposed(group) == \A i \in 1..Len(group) : group[i][1] \notin folder

\* files of the folder that a directory holds, as they were or re-encoded
StoredIn(dir) ==
    {f \in FileIds : \E n \in DOMAIN dir : dir[n].id = f /\ dir[n].kind \in {"file", "edited"}}

\* C12: when trash_all, keep_all or batch_organize answers success for a group, no
\* item of the group is left in the folder and each is in _TRASH or _KEPT; a
\* group with no item left in the folder stays so as long as the session lasts;
\* and a request on the id of such a group moves no file.
C12_PendingToDisposed ==
    [][/\ (last'.action \in Disposals /\ last'.status = "ok") =>
            \A i \in 1..Len(Asked) :
                /\ Asked[i][1] \notin folder'
                /\ Asked[i][1] \in StoredIn(trash') \cup StoredIn(kept')
       /\ groups' = groups =>
            \A g \in 1..Len(groups) : Disposed(groups[g]) => Disposed(groups[g])'
       /\ (last'.action \in Disposals \cup {"save_gif"} /\ Disposed(Asked)) =>
            <<folder, trash, kept>>' = <<folder, trash, kept>>]_vars

\* a trash_all request on a group already disposed of: it is answered with an
\* error, the items are where the earlier action put them
C12_Witness ==
    /\ last.action = "trash_all"
    /\ last.status = "error"
    /\ PyIndexOk(Len(groups), last.gid)
    /\ Disposed(PyIndex(groups, last.gid))
    /\ \A i \in 1..Len(PyIndex(groups, last.gid)) :
          PyIndex(groups, last.gid)[i][1] \in StoredIn(trash) \cup StoredIn(kept)

\* the answers with a 4xx code
ClientErrors == {"bad_request", "not_found"}

\* C13: a triage request whose group id is not one of 0..len(groups)-1 is answered
\* with a client error and changes neither the file system nor the session.
C13_InvalidGroupReference ==
    [][(last'.action \in Disposals \cup {"save_gif", "action"}
            /\ last'.gid \notin 0..(Len(groups) - 1)) =>
        /\ last'.status \in ClientErrors
        /\ fsVars' = fsVars
        /\ sessionVars' = sessionVars]_vars

\* C14: trash_all on a group whose items are all in the folder succeeds; an item
\* whose basename _TRASH already has is moved to <base>_<epoch-seconds><ext> and
\* the file of that basename stays as it was; every other item is moved to its
\* basename.
C14_TrashCollisionRenames ==
    [][(last'.action = "trash_all" /\ Whole(Asked)) =>
        /\ last'.status = "ok"
        /\ \A i \in 1..Len(Asked) :
              LET f == Asked[i][1]
              IN /\ f \notin folder'
                 /\ IF basename(f) \in DOMAIN trash
                    THEN /\ basename(f) \in DOMAIN trash'
                         /\ trash'[basename(f)] = trash[basename(f)]
                         /\ \E now \in 1..MaxClock :
                               /\ EpochName(f, now) \in DOMAIN trash'
                               /\ trash'[EpochName(f, now)] = Orig(f)
                    ELSE /\ basename(f) \in DOMAIN trash'
                         /\ trash'[basename(f)] = Orig(f)]_vars

\* trash_all of a.jpg and b.jpg with an older a.jpg in _TRASH: the older file is
\* as it was, a.jpg is under a_1.jpg and b.jpg under its own name
C14_Witness ==
    /\ last.action = "trash_all"
    /\ last.status = "ok"
    /\ {<<"a", ".jpg">>, <<"a", "_", "1", ".jpg">>, <<"b", ".jpg">>} \subseteq DOMAIN trash
    /\ trash[<<"a", ".jpg">>] = Old
    /\ trash[<<"a", "_", "1", ".jpg">>] = Orig(1)
    /\ trash[<<"b", ".jpg">>] = Orig(2)

\* forward[1:-1]: the sequence without its first and its last item
Inner(forward) == IF Len(forward) < 3 THEN <<>> ELSE SubSeq(forward, 2, Len(forward) - 1)

\* C15: in bounce mode save_gif and generate_preview_gif put out the frames
\* followed by the reverse of the frames without the first and the last, n +
\* max(0, n - 2) frames in all, so one or two frames are put out as they are; in
\* any other mode they put out the frames as they are.
C15_BounceOutput ==
    \A i \in 1..Len(gcalls) :
        LET c == gcalls[i]
            n == Len(c.frames)
        IN IF c.mode = "bounce"
           THEN /\ c.out = c.frames \o Reverse(Inner(c.frames))
                /\ Len(c.out) = n + (IF n > 2 THEN n - 2 ELSE 0)
                /\ n <= 2 => c.out = c.frames
           ELSE c.out = c.frames

\* the preview of three frames in bounce mode: the second frame comes once more
C15_Witness ==
    /\ gcalls # NoCalls
    /\ gcalls[1].route = "generate_preview_gif"
    /\ gcalls[1].mode = "bounce"
    /\ gcalls[1].frames = <<1, 2, 3>>
    /\ gcalls[1].out = <<1, 2, 3, 2>>

\* the groups one after the other
RECURSIVE Concat(_)
Concat(gs) == IF gs = <<>> THEN <<>> ELSE gs[1] \o Concat(Tail(gs))

\* the files scan_folder lists before it dates and sorts them (lines 63-68)
Enumerated == FilterSpecial(Enumerate(folder, 1))

\* the place of file f in a list of files
Place(fs, f) == CHOOSE k \in 1..Len(fs) : fs[k] = f

\* C16: after a scan every group has an item, every file listed is with its date
\* in one place of one group, the groups one after the other are in ascending
\* order of date with files of one date in the order they were listed; no file
\* gives no group, one file gives one group of that file.
C16_OrderedPartition ==
    Scanned =>
        LET flat == Concat(groups)
            enum == Enumerated
        IN /\ \A g \in 1..Len(groups) : groups[g] # <<>>
           /\ Len(flat) = Len(enum)
           /\ \A k \in 1..Len(enum) :
                 /\ Cardinality(GroupsOf(enum[k])) = 1
                 /\ Cardinality({p \in 1..Len(flat) : flat[p][1] = enum[k]}) = 1
           /\ \A p \in 1..Len(flat) : flat[p][2] = get_photo_datetime(flat[p][1])
           /\ \A p, q \in 1..Len(flat) :
                 p < q =>
                    /\ flat[p][2] <= flat[q][2]
                    /\ flat[p][2] = flat[q][2] => Place(enum, flat[p][1]) < Place(enum, flat[q][1])
           /\ enum = <<>> => groups = <<>>
           /\ Len(enum) = 1 => groups = << << <<enum[1], get_photo_datetime(enum[1])>> >> >>

\* a scan of three files of one time, the video with the lowest id listed last:
\* it is sorted last
C16_Witness ==
    /\ Scanned
    /\ Enumerated = <<2, 3, 1>>
    /\ \A f \in {2, 3} : get_photo_datetime(f) = get_photo_datetime(1)
    /\ Concat(groups) = <<<<2, get_photo_datetime(2)>>, <<3, get_photo_datetime(3)>>,
                          <<1, get_photo_datetime(1)>>>>

\* the positions of the group at which the request just answered met a move that
\* raises: the file is gone or may not be moved
FailsAt(group, arg) ==
    {i \in 1..Len(group) : group[i][1] \notin folder \/ group[i][1] \in arg.denied}

Least(ks) == CHOOSE k \in ks : \A j \in ks : k <= j

\* C17: trash_all and keep_all succeed when no move fails; when the move of the
\* k-th item fails they answer with an error, the items before the k-th are out
\* of the folder and in _TRASH, or _KEPT, and the k-th and every later item is in
\* the folder exactly if it was before and has been moved nowhere; of a later
\* item nothing has been written at all.
C17_MoveFailureStops ==
    [][last'.action \in {"trash_all", "keep_all"} =>
        LET bad == FailsAt(Asked, last'.arg)
        IN IF bad = {} THEN last'.status = "ok"
           ELSE /\ last'.status = "error"
                /\ \A i \in 1..Len(Asked) :
                      LET f == Asked[i][1]
                      IN IF i < Least(bad)
                         THEN /\ f \notin folder'
                              /\ IF last'.action = "trash_all"
                                 THEN f \in StoredIn(trash') /\ kept' = kept
                                 ELSE f \in StoredIn(kept') /\ trash' = trash
                         ELSE /\ f \in folder' <=> f \in folder
                              /\ f \in HeldIn(trash') <=> f \in HeldIn(trash)
                              /\ f \in HeldIn(kept') <=> f \in HeldIn(kept)
                              /\ i > Least(bad) =>
                                    /\ f \in StoredIn(trash') <=> f \in StoredIn(trash)
                                    /\ f \in StoredIn(kept') <=> f \in StoredIn(kept)]_vars

\* trash_all on a.jpg, b.jpg, c.mp4 with b.jpg not to be moved: an error, a.jpg
\* in _TRASH, b.jpg and c.mp4 in the folder
C17_Witness ==
    /\ last.action = "trash_all"
    /\ last.status = "error"
    /\ last.arg.denied = {2}
    /\ Len(groups) = 1
    /\ 1 \in HeldIn(trash)
    /\ {2, 3} \subseteq folder
    /\ {2, 3} \cap (StoredIn(trash) \cup StoredIn(kept)) = {}

\* C18: a trash_all, keep_all or batch_organize request that succeeds takes the
\* items it moved out of the group's sequence in manager.groups, so that the
\* session lists no item that is not in the scanned folder.
C18_SessionConsumesGroup ==
    [][(last'.action \in Disposals /\ last'.status = "ok") =>
        /\ \A i \in 1..Len(Asked) : Asked[i][1] \in folder \ folder' =>
              \A g \in 1..Len(groups') : \A j \in 1..Len(groups'[g]) :
                  groups'[g][j][1] # Asked[i][1]
        /\ \A g \in 1..Len(groups') : \A j \in 1..Len(groups'[g]) :
              groups'[g][j][1] \in folder']_vars

\* the files of a group
FilesOf(group) == {group[i][1] : i \in 1..Len(group)}

\* C19: a request with an id 0..len-1 that the replaced session had given to a
\* group of other files than the group the id names now moves no file.
C19_StaleIdNotApplied ==
    [][(/\ last'.action \in Disposals
        /\ last'.gid \in 0..(Len(issued) - 1)
        /\ last'.gid \in 0..(Len(groups) - 1)
        /\ FilesOf(issued[last'.gid + 1]) \cap FilesOf(Asked) = {}) =>
            <<folder, trash, kept>>' = <<folder, trash, kept>>]_vars

\* the k-th candidate of a probe loop: the plain name for 0, the _k name otherwise
Candidate(c, k) ==
    IF k = 0 THEN c.stem \o <<c.ext>> ELSE c.stem \o <<"_">> \o Digits(k) \o <<c.ext>>

\* C20: the probe loop of get_safe_filename_date and the one of save_gif end after
\* at most one probe more than the directory has files, and return the first
\* candidate, of the plain name, _1, _2, ..., that the directory does not have.
C20_ProbeTerminatesLowest ==
    \A i \in 1..Len(gcalls) :
        LET c == gcalls[i]
        IN /\ c.probes <= Cardinality(c.dir) + 1
           /\ \E k \in 0..Cardinality(c.dir) :
                 /\ c.out = Candidate(c, k)
                 /\ c.out \notin c.dir
                 /\ \A j \in 0..(k - 1) : Candidate(c, j) \in c.dir
                 /\ c.probes = k + 1

\* save_gif finds the plain name, _1 and _2 taken and returns _3 after four probes
C20_Witness ==
    /\ gcalls # NoCalls
    /\ gcalls[1].ext = ".gif"
    /\ gcalls[1].out = <<strftime(0), "_", "Unknown", "_", "3", ".gif">>
    /\ gcalls[1].probes = 4

====
